---- MODULE Spec2Model ----
(***************************************************************************)
(* Session store and request lifecycle of the PrepSeek / ReXolve client.   *)
(*                                                                         *)
(* Two pages of the repository are modelled:                               *)
(*   variant = "App"   src/src/App.jsx, lines 1-391: the multi-session     *)
(*                     page (sessions, currentId, loading, error)          *)
(*   variant = "chat"  src/unnamed/part_000: the single-conversation page  *)
(*                     (messages, loading, error)                          *)
(* A behaviour runs one of the two pages from its first render on.         *)
(*                                                                         *)
(* A text is a sequence of one-character strings.  The handlers of a       *)
(* render close over that render's state; user events are discrete, so a   *)
(* user handler always sees the current state, while the continuation of   *)
(* handleSend after its await sees the state captured when it was called   *)
(* (variable req).  The save effect of a render runs before the next       *)
(* event, so it is part of every action that sets the persisted state;     *)
(* the effects of the first render are steps of their own.  A handler      *)
(* that returns early leaves every variable as it is.                      *)
(***************************************************************************)
EXTENDS Integers, Sequences, FiniteSets, TLC

VARIABLES
  variant,    \* which page runs
  phase,      \* "mount", "loaded", "kept", "rerender", "ready", "crashed"
  sessions,   \* App.jsx: useState([]) sessions
  currentId,  \* App.jsx: useState(null) currentId
  messages,   \* part_000: useState([]) messages
  loading,    \* useState(false) loading
  error,      \* useState("") error
  storage,    \* the value under the page's localStorage key
  req,        \* the suspended handleSend call (its closure), or NoReq
  requests    \* number of fetch calls issued so far

vars == <<variant, phase, sessions, currentId, messages, loading, error,
          storage, req, requests>>

----------------------------------------------------------------------------
(* Bounds *)

MaxSize == 2       \* sessions in the list plus fetch calls issued so far
NumIds == 3        \* distinct results of generateId explored

(* Program constants *)

TitleLen == 40     \* slice(0, 40) of the automatic title

----------------------------------------------------------------------------
(* Values *)

Null == 0                          \* useState(null): no session id
Undefined == <<"undefined">>       \* the value of a missing property
NoError == ""
ErrorText == "Something went wrong. Try again."
DefaultTitle == <<"N","e","w"," ","d","e","c","i","s","i","o","n">>
Dots == <<".",".",".">>

Ids == 1..NumIds                   \* session ids
Times == {1}                       \* results of Date.now explored
LongText == [i \in 1..(TitleLen + 1) |-> "x"]
Texts ==                           \* textarea contents
  {<<>>, <<" ">>, <<"q", " ">>, <<" ">> \o LongText \o <<" ">>}
Titles == {<<>>, <<" "," ">>, <<" ","t">>}            \* rename field contents
Answers == {<<"o","k">>}

NoReq == [kind |-> "none"]

----------------------------------------------------------------------------
(* String.prototype.trim *)

RECURSIVE TrimLeft(_)
TrimLeft(s) ==
  IF s = <<>> THEN <<>>
  ELSE IF Head(s) = " " THEN TrimLeft(Tail(s)) ELSE s

RECURSIVE TrimRight(_)
TrimRight(s) ==
  IF s = <<>> THEN <<>>
  ELSE IF s[Len(s)] = " " THEN TrimRight(SubSeq(s, 1, Len(s) - 1)) ELSE s

Trim(s) == TrimRight(TrimLeft(s))

(* String.prototype.slice(0, n) *)
Slice(s, n) == SubSeq(s, 1, IF Len(s) < n THEN Len(s) ELSE n)

(* Array.prototype.map / filter / find on a list of sessions *)
MapSeq(s, F(_)) == [i \in 1..Len(s) |-> F(s[i])]

RECURSIVE FilterOut(_, _)
FilterOut(s, id) ==
  IF s = <<>> THEN <<>>
  ELSE IF Head(s).id = id THEN FilterOut(Tail(s), id)
       ELSE <<Head(s)>> \o FilterOut(Tail(s), id)

HasId(s, id) == \E i \in 1..Len(s) : s[i].id = id

FindIndex(s, id) == CHOOSE i \in 1..Len(s) :
                       s[i].id = id /\ \A j \in 1..(i - 1) : s[j].id # id

----------------------------------------------------------------------------
(* JSON.stringify / JSON.parse of the persisted list.  A property whose    *)
(* value is undefined is left out of the document; reading a property a    *)
(* parsed object does not have yields undefined.                           *)

StringifyMessage(m) ==
  IF m.text = Undefined THEN [role |-> m.role] ELSE m

ParseMessage(d) ==
  IF "text" \in DOMAIN d THEN d ELSE [role |-> d.role, text |-> Undefined]

StringifyMessages(ms) == [i \in 1..Len(ms) |-> StringifyMessage(ms[i])]

ParseMessages(ds) == [i \in 1..Len(ds) |-> ParseMessage(ds[i])]

StringifySession(s) ==
  [id |-> s.id, title |-> s.title,
   messages |-> StringifyMessages(s.messages), createdAt |-> s.createdAt]

(* faulty variant: the title is not read back *)
ParseSessionUntitled(d) ==
  [id |-> d.id, title |-> DefaultTitle,
   messages |-> ParseMessages(d.messages), createdAt |-> d.createdAt]

ParseSession(d) ==
  [id |-> d.id, title |-> d.title,
   messages |-> ParseMessages(d.messages), createdAt |-> d.createdAt]

(* a stored value: kind "absent" (no item), "garbage" (not JSON), "null",  *)
(* "object" (JSON, not an array) or "array" with the documents in val      *)
Stored(kind, val) == [kind |-> kind, val |-> val]

StringifySessions(ss) ==
  Stored("array", [i \in 1..Len(ss) |-> StringifySession(ss[i])])

StringifyChat(ms) == Stored("array", StringifyMessages(ms))

----------------------------------------------------------------------------
(* Records *)

(* faulty variant: the text is stored as typed *)
UserMessageUntrimmed(t) == [role |-> "user", text |-> t]

UserMessage(t) == [role |-> "user", text |-> Trim(t)]

AssistantMessage(a) == [role |-> "assistant", text |-> a]

Fresh(id, now) ==
  [id |-> id, title |-> DefaultTitle, messages |-> <<>>, createdAt |-> now]

(* the request body: JSON.stringify of                                     *)
(* messages.map(m => ({role, content: m.text})); a content that is         *)
(* undefined is left out of the document                                   *)
Transcript(ms) ==
  [i \in 1..Len(ms) |->
     IF ms[i].text = Undefined
     THEN [role |-> ms[i].role]
     ELSE [role |-> ms[i].role, content |-> ms[i].text]]

(* what the transport hands back to the suspended handleSend *)
Responses ==
  {[kind |-> "ok", answer |-> a] : a \in Answers}
    \cup {[kind |-> k, answer |-> Undefined] :
            k \in {"noAnswer", "nullBody", "badJson", "http", "network"}}

(* fetch rejects, res.ok is false, res.json() rejects, or data is null *)
Throws(r) == r.kind \in {"nullBody", "badJson", "http", "network"}

(* contents of localStorage when the page is opened *)
StoredSession ==
  [id |-> 1, title |-> <<"t">>,
   messages |-> <<[role |-> "user", text |-> <<"q">>]>>, createdAt |-> 0]

(* a list an earlier run of the page saved *)
StoredSessions == <<StoredSession, Fresh(2, 0), Fresh(3, 1)>>

StoredChat == <<[role |-> "user", text |-> <<"q">>]>>

InitialStorage(v) ==
  {Stored("absent", <<>>), Stored("garbage", <<>>), Stored("null", <<>>),
   Stored("object", <<>>), Stored("array", <<>>)}
    \cup (IF v = "App"
          THEN {StringifySessions(StoredSessions)}
          ELSE {StringifyChat(StoredChat)})

----------------------------------------------------------------------------
(* src/src/App.jsx *)

CurrentSession == sessions[FindIndex(sessions, currentId)]

(* what the bound counts: newSession and a handleSend accepted by an idle  *)
(* page add to it *)
Size == (IF variant = "App" THEN Len(sessions) ELSE 0) + requests

(* the page shows its controls: not the "Loading..." screen *)
Rendered ==
  /\ variant = "App"
  /\ phase = "ready"
  /\ HasId(sessions, currentId)

(* first render: useState initial values, nothing read yet *)
Init ==
  /\ variant \in {"App", "chat"}
  /\ phase = "mount"
  /\ sessions = <<>>
  /\ currentId = Null
  /\ messages = <<>>
  /\ loading = FALSE
  /\ error = NoError
  /\ storage \in InitialStorage(variant)
  /\ req = NoReq
  /\ requests = 0

(* ids that occur in the state: in the list, as the active id, or in the   *)
(* closure of the suspended handleSend                                     *)
IdsOf(ss) == {ss[i].id : i \in 1..Len(ss)}

UsedIds ==
  (IdsOf(sessions) \cup {currentId}
     \cup (IF req.kind = "App"
           THEN IdsOf(req.sessions) \cup {req.currentId}
           ELSE {})) \ {Null}

(* Math.random().toString(36).substring(2, 10): any id, used or not.  The  *)
(* program only compares ids, so the ids that occur nowhere in the state   *)
(* are interchangeable and the least of them stands for all of them.       *)
generateId ==
  UsedIds \cup {id \in Ids \ UsedIds : \A other \in Ids \ UsedIds : id <= other}

(* load effect: JSON.parse throws on garbage, parsed.length throws on null *)
LoadThrows == storage.kind \in {"garbage", "null"}

LoadFinds == storage.kind = "array" /\ Len(storage.val) > 0

LoadEffect ==
  /\ variant = "App"
  /\ phase = "mount"
  /\ IF LoadThrows
     THEN /\ phase' = "crashed"
          /\ UNCHANGED <<sessions, currentId>>
     ELSE /\ phase' = "loaded"
          /\ IF LoadFinds
             THEN /\ sessions' = MapSeq(storage.val, ParseSession)
                  /\ currentId' = storage.val[1].id
             ELSE \E id \in generateId, now \in Times :
                    /\ sessions' = <<Fresh(id, now)>>
                    /\ currentId' = id
  /\ UNCHANGED <<variant, messages, loading, error, storage, req,
                 requests>>

(* save effect of the first render: its closure holds sessions = [] *)
SaveEffectMount ==
  /\ variant = "App"
  /\ phase = "loaded"
  /\ storage' = StringifySessions(<<>>)
  /\ phase' = "rerender"
  /\ UNCHANGED <<variant, sessions, currentId, messages, loading, error, req,
                 requests>>

(* save effect of the render that follows the load effect's setSessions *)
SaveEffect ==
  /\ variant = "App"
  /\ phase = "rerender"
  /\ storage' = StringifySessions(sessions)
  /\ phase' = "ready"
  /\ UNCHANGED <<variant, sessions, currentId, messages, loading, error, req,
                 requests>>

(* faulty variant: the list is set and nothing is written *)
SetSessionsUnsaved(next) ==
  /\ sessions' = next
  /\ UNCHANGED storage

(* setSessions(next) followed by the save effect of the next render *)
SetSessions(next) ==
  /\ sessions' = next
  /\ storage' = StringifySessions(next)

(* faulty variant: the new session is put at the end of the list *)
newSessionAtEnd ==
  /\ Rendered
  /\ Size < MaxSize
  /\ \E id \in generateId, now \in Times :
       /\ SetSessions(sessions \o <<Fresh(id, now)>>)
       /\ currentId' = id
  /\ UNCHANGED <<variant, phase, messages, loading, error, req,
                 requests>>

newSession ==
  /\ Rendered
  /\ Size < MaxSize
  /\ \E id \in generateId, now \in Times :
       /\ SetSessions(<<Fresh(id, now)>> \o sessions)
       /\ currentId' = id
  /\ UNCHANGED <<variant, phase, messages, loading, error, req,
                 requests>>

renameSession(id, title) ==
  SetSessions([i \in 1..Len(sessions) |->
                 IF sessions[i].id = id
                 THEN [sessions[i] EXCEPT !.title = title]
                 ELSE sessions[i]])

(* faulty variant: the blank check of finishRename is missing *)
finishRenameUnguarded(i, value) == renameSession(sessions[i].id, Trim(value))

(* SessionRow of sessions[i]: the rename field is left with value in it *)
finishRename(i, value) ==
  IF Trim(value) # <<>>
  THEN renameSession(sessions[i].id, Trim(value))
  ELSE UNCHANGED <<sessions, storage>>

RenameOf(i, value) ==
  /\ Rendered
  /\ i \in 1..Len(sessions)
  /\ finishRename(i, value)
  /\ UNCHANGED <<variant, phase, currentId, messages, loading, error, req,
                 requests>>

(* faulty variant: an emptied list gets no replacement session *)
deleteSessionNoReplacement(id, confirmed) ==
  IF ~confirmed
  THEN UNCHANGED <<sessions, storage, currentId>>
  ELSE LET remaining == FilterOut(sessions, id) IN
       /\ SetSessions(remaining)
       /\ currentId' = IF Len(remaining) = 0 THEN Null ELSE remaining[1].id

(* faulty variant: the replacement session is not made the active one *)
deleteSessionKeepsActive(id, confirmed) ==
  IF ~confirmed
  THEN UNCHANGED <<sessions, storage, currentId>>
  ELSE LET remaining == FilterOut(sessions, id) IN
       IF Len(remaining) = 0
       THEN \E new \in generateId, now \in Times :
              /\ SetSessions(<<Fresh(new, now)>>)
              /\ UNCHANGED currentId
       ELSE /\ SetSessions(remaining)
            /\ currentId' = remaining[1].id

deleteSession(id, confirmed) ==
  IF ~confirmed
  THEN UNCHANGED <<sessions, storage, currentId>>
  ELSE LET remaining == FilterOut(sessions, id) IN
       IF Len(remaining) = 0
       THEN \E new \in generateId, now \in Times :
              /\ SetSessions(<<Fresh(new, now)>>)
              /\ currentId' = new
       ELSE /\ SetSessions(remaining)
            /\ currentId' = remaining[1].id

DeleteOf(i, confirmed) ==
  /\ Rendered
  /\ i \in 1..Len(sessions)
  /\ deleteSession(sessions[i].id, confirmed)
  /\ UNCHANGED <<variant, phase, messages, loading, error, req,
                 requests>>

(* faulty variant: every session is emptied *)
clearCurrentAndOthers(confirmed) ==
  IF ~confirmed
  THEN UNCHANGED <<sessions, storage>>
  ELSE SetSessions([i \in 1..Len(sessions) |->
                      [sessions[i] EXCEPT !.messages = <<>>]])

clearCurrent(confirmed) ==
  IF ~confirmed
  THEN UNCHANGED <<sessions, storage>>
  ELSE SetSessions([i \in 1..Len(sessions) |->
                      IF sessions[i].id = currentId
                      THEN [sessions[i] EXCEPT !.messages = <<>>]
                      ELSE sessions[i]])

ClearOf(confirmed) ==
  /\ Rendered
  /\ clearCurrent(confirmed)
  /\ UNCHANGED <<variant, phase, currentId, messages, loading, error, req,
                 requests>>

Rename == \E i \in 1..Len(sessions), value \in Titles : RenameOf(i, value)

Delete ==
  \E i \in 1..Len(sessions), confirmed \in BOOLEAN : DeleteOf(i, confirmed)

Clear == \E confirmed \in BOOLEAN : ClearOf(confirmed)

(* SessionRow onSelect *)
Select ==
  /\ Rendered
  /\ \E i \in 1..Len(sessions) : currentId' = sessions[i].id
  /\ UNCHANGED <<variant, phase, sessions, messages, loading, error, storage,
                 req, requests>>

(* faulty variant: the guard does not look at the text *)
AcceptsBlank(text) == ~loading

(* faulty variant: the guard does not look at loading *)
AcceptsWhileLoading(text) == Trim(text) # <<>>

(* handleSend up to its await: the textarea holds text *)
Accepts(text) == Trim(text) # <<>> /\ ~loading

Updated(text) ==
  [CurrentSession EXCEPT !.messages = @ \o <<UserMessage(text)>>]

handleSend(text) ==
  IF ~Accepts(text)
  THEN UNCHANGED <<sessions, storage, loading, error, req, requests>>
  ELSE /\ loading \/ Size < MaxSize
       /\ requests' = requests + 1
       /\ SetSessions([i \in 1..Len(sessions) |->
                         IF sessions[i].id = currentId
                         THEN Updated(text)
                         ELSE sessions[i]])
       /\ loading' = TRUE
       /\ error' = NoError
       /\ req' = [kind |-> "App", input |-> text, sessions |-> sessions,
                  currentId |-> currentId, updated |-> Updated(text),
                  body |-> Transcript(Updated(text).messages)]

SendOf(text) ==
  /\ Rendered
  /\ handleSend(text)
  /\ UNCHANGED <<variant, phase, currentId, messages>>

Send == \E text \in Texts : SendOf(text)

(* the automatic title of a first turn *)
AutoTitle(text) == Slice(text, TitleLen) \o Dots

WithAnswer(updated, answer) ==
  [updated EXCEPT
     !.messages = @ \o <<AssistantMessage(answer)>>,
     !.title = IF Len(updated.messages) = 1
               THEN AutoTitle(updated.messages[1].text)
               ELSE @]

(* faulty variant: the reply goes to the session active when it arrives *)
resumeOnActive(r) ==
  /\ IF Throws(r)
     THEN /\ error' = ErrorText
          /\ UNCHANGED <<sessions, storage>>
     ELSE /\ SetSessions([i \in 1..Len(sessions) |->
                            IF sessions[i].id = currentId
                            THEN [sessions[i] EXCEPT
                                    !.messages =
                                       @ \o <<AssistantMessage(r.answer)>>]
                            ELSE sessions[i]])
          /\ UNCHANGED error
  /\ loading' = FALSE

(* faulty variant: loading is cleared at the end of try, not in finally *)
resumeNoFinally(r) ==
  IF Throws(r)
  THEN /\ error' = ErrorText
       /\ UNCHANGED <<sessions, storage, loading>>
  ELSE /\ SetSessions([i \in 1..Len(req.sessions) |->
                         IF req.sessions[i].id = req.currentId
                         THEN WithAnswer(req.updated, r.answer)
                         ELSE req.sessions[i]])
       /\ loading' = FALSE
       /\ UNCHANGED error

(* faulty variant: catch takes the optimistic user message back *)
resumeRollback(r) ==
  /\ IF Throws(r)
     THEN /\ error' = ErrorText
          /\ SetSessions(req.sessions)
     ELSE /\ SetSessions([i \in 1..Len(req.sessions) |->
                            IF req.sessions[i].id = req.currentId
                            THEN WithAnswer(req.updated, r.answer)
                            ELSE req.sessions[i]])
          /\ UNCHANGED error
  /\ loading' = FALSE

(* handleSend after its await: try / catch / finally, on the state the     *)
(* call captured                                                           *)
resume(r) ==
  /\ IF Throws(r)
     THEN /\ error' = ErrorText
          /\ UNCHANGED <<sessions, storage>>
     ELSE /\ SetSessions([i \in 1..Len(req.sessions) |->
                            IF req.sessions[i].id = req.currentId
                            THEN WithAnswer(req.updated, r.answer)
                            ELSE req.sessions[i]])
          /\ UNCHANGED error
  /\ loading' = FALSE

(* faulty variant: a failed request is issued again *)
ReceiveOfWithRetry(r) ==
  /\ variant = "App"
  /\ req # NoReq
  /\ IF Throws(r)
     THEN /\ requests' = requests + 1
          /\ UNCHANGED <<sessions, storage, loading, error, req>>
     ELSE /\ resume(r)
          /\ req' = NoReq
          /\ UNCHANGED requests
  /\ UNCHANGED <<variant, phase, currentId, messages>>

ReceiveOf(r) ==
  /\ variant = "App"
  /\ req # NoReq
  /\ resume(r)
  /\ req' = NoReq
  /\ UNCHANGED <<variant, phase, currentId, messages, requests>>

Receive == \E r \in Responses : ReceiveOf(r)

----------------------------------------------------------------------------
(* src/unnamed/part_000 *)

ChatReady == variant = "chat" /\ phase = "ready"

(* load effect: try { if (saved) { parsed = JSON.parse(saved);             *)
(* if (Array.isArray(parsed)) setMessages(parsed) } } catch {}             *)
LoadChat ==
  /\ variant = "chat"
  /\ phase = "mount"
  /\ IF storage.kind = "array"
     THEN /\ messages' = ParseMessages(storage.val)
          /\ phase' = "loaded"
     ELSE /\ UNCHANGED messages
          /\ phase' = "kept"
  /\ UNCHANGED <<variant, sessions, currentId, loading, error, storage, req,
                 requests>>

(* save effect of the first render: its closure holds messages = [] *)
SaveChatMount ==
  /\ variant = "chat"
  /\ phase \in {"loaded", "kept"}
  /\ storage' = StringifyChat(<<>>)
  /\ phase' = IF phase = "loaded" THEN "rerender" ELSE "ready"
  /\ UNCHANGED <<variant, sessions, currentId, messages, loading, error, req,
                 requests>>

SaveChat ==
  /\ variant = "chat"
  /\ phase = "rerender"
  /\ storage' = StringifyChat(messages)
  /\ phase' = "ready"
  /\ UNCHANGED <<variant, sessions, currentId, messages, loading, error, req,
                 requests>>

(* setMessages(next) followed by the save effect of the next render *)
SetMessages(next) ==
  /\ messages' = next
  /\ storage' = StringifyChat(next)

handleClearChat(confirmed) ==
  IF ~confirmed
  THEN UNCHANGED <<messages, storage>>
  ELSE SetMessages(<<>>)

ClearChatOf(confirmed) ==
  /\ ChatReady
  /\ handleClearChat(confirmed)
  /\ UNCHANGED <<variant, phase, sessions, currentId, loading, error, req,
                 requests>>

ClearChat == \E confirmed \in BOOLEAN : ClearChatOf(confirmed)

handleSendChat(text) ==
  IF ~Accepts(text)
  THEN UNCHANGED <<messages, storage, loading, error, req, requests>>
  ELSE LET nextMessages == messages \o <<UserMessage(text)>> IN
       /\ loading \/ Size < MaxSize
       /\ requests' = requests + 1
       /\ SetMessages(nextMessages)
       /\ loading' = TRUE
       /\ error' = NoError
       /\ req' = [kind |-> "chat", input |-> text, messages |-> messages,
                  nextMessages |-> nextMessages,
                  body |-> Transcript(nextMessages)]

SendChatOf(text) ==
  /\ ChatReady
  /\ handleSendChat(text)
  /\ UNCHANGED <<variant, phase, sessions, currentId>>

SendChat == \E text \in Texts : SendChatOf(text)

resumeChat(r) ==
  /\ IF Throws(r)
     THEN /\ error' = ErrorText
          /\ UNCHANGED <<messages, storage>>
     ELSE /\ SetMessages(req.nextMessages \o <<AssistantMessage(r.answer)>>)
          /\ UNCHANGED error
  /\ loading' = FALSE

ReceiveChatOf(r) ==
  /\ variant = "chat"
  /\ req # NoReq
  /\ resumeChat(r)
  /\ req' = NoReq
  /\ UNCHANGED <<variant, phase, sessions, currentId, requests>>

ReceiveChat == \E r \in Responses : ReceiveChatOf(r)

----------------------------------------------------------------------------

Next ==
  \/ LoadEffect
  \/ SaveEffectMount
  \/ SaveEffect
  \/ newSession
  \/ Rename
  \/ Delete
  \/ Clear
  \/ Select
  \/ Send
  \/ Receive
  \/ LoadChat
  \/ SaveChatMount
  \/ SaveChat
  \/ ClearChat
  \/ SendChat
  \/ ReceiveChat

Spec == Init /\ [][Next]_vars

(* the transport eventually resolves or rejects every fetch *)
FairSpec == Spec /\ WF_vars(Receive) /\ WF_vars(ReceiveChat)

----------------------------------------------------------------------------
(* Properties.  A property of one handler is an action property: the       *)
(* handler's action with its inputs is the antecedent.                     *)

MessagesOf(ss, id) == ss[FindIndex(ss, id)].messages

Ready == phase = "ready"

(* the list handleSend left behind when it suspended *)
Optimistic ==
  [i \in 1..Len(req.sessions) |->
     IF req.sessions[i].id = req.currentId THEN req.updated
     ELSE req.sessions[i]]

(* the turn of the suspended handleSend: the user message, then an answer *)
UserTurn == <<[role |-> "user", text |-> Trim(req.input)]>>

AssistantTurn(a) == <<[role |-> "assistant", text |-> a]>>

BlankSession(s) == s.title = DefaultTitle /\ s.messages = <<>>

(* C1: once the page is initialised, currentId is the id of a session of   *)
(* the list, whatever actions and responses have happened.                 *)
C1_ActiveIdIsMember ==
  (variant = "App" /\ Ready) => HasId(sessions, currentId)

(* C2: once the page is initialised, the sessions list is never empty.     *)
C2_AtLeastOneSession ==
  (variant = "App" /\ Ready) => Len(sessions) >= 1

(* a request was answered, and the only session is blank again: the        *)
(* answered session was deleted and replaced                               *)
C2_Witness ==
  /\ variant = "App" /\ Ready
  /\ requests > 0 /\ ~loading /\ error = NoError
  /\ Len(sessions) = 1 /\ BlankSession(sessions[1])

(* C3: a send attempted while loading is true changes no message list and  *)
(* issues no request, and a request is only ever issued while none is      *)
(* outstanding.                                                            *)
C3_BusyGate ==
  [][/\ \A text \in Texts :
          (loading /\ (SendOf(text) \/ SendChatOf(text))) =>
             /\ sessions' = sessions
             /\ messages' = messages
             /\ req' = req
             /\ requests' = requests
     /\ (requests' # requests) => (req = NoReq /\ ~loading)]_vars

(* a request is outstanding and the page takes a further send *)
C3_Witness ==
  /\ loading /\ req # NoReq
  /\ Rendered \/ ChatReady
  /\ \E text \in Texts : Trim(text) # <<>>

(* C4: loading is true only while a request is outstanding, and whenever   *)
(* it is true it becomes false again, given that the transport answers.    *)
C4_BusyClears ==
  /\ [](loading => req # NoReq)
  /\ loading ~> ~loading

(* a send was accepted, its request failed, and the page is idle *)
C4_Witness ==
  /\ requests > 0 /\ error = ErrorText
  /\ ~loading /\ req = NoReq

(* C5: when the request fails with a non-2xx response or a transport       *)
(* exception, the step changes no message list, sets a non-empty error and *)
(* clears loading; the target's messages are those before the send         *)
(* followed by the user's message, as the send left them.                  *)
C5_FailureKeepsUserTurn ==
  [][\A r \in Responses :
       (r.kind \in {"http", "network"} /\ (ReceiveOf(r) \/ ReceiveChatOf(r))) =>
          /\ sessions' = sessions
          /\ messages' = messages
          /\ error' # NoError
          /\ ~loading'
          /\ (req.kind = "App" /\ sessions = Optimistic) =>
                MessagesOf(sessions', req.currentId) =
                  MessagesOf(req.sessions, req.currentId) \o UserTurn
          /\ (req.kind = "chat" /\ messages = req.nextMessages) =>
                messages' = req.messages \o UserTurn]_vars

(* the error shows, and the active session holds the user's turn alone *)
C5_Witness ==
  /\ error = ErrorText /\ ~loading /\ req = NoReq
  /\ Rendered
  /\ Len(CurrentSession.messages) = 1
  /\ CurrentSession.messages[1].role = "user"

(* C6: when the request succeeds with answer a, the target's messages      *)
(* become those it had when the send was accepted, then the user message   *)
(* with the trimmed text, then the assistant message with a, and loading   *)
(* is false.                                                               *)
C6_SuccessAppendsAnswer ==
  [][\A r \in Responses :
       /\ (r.kind = "ok" /\ ReceiveOf(r)) =>
             /\ ~loading'
             /\ HasId(sessions', req.currentId)
             /\ MessagesOf(sessions', req.currentId) =
                  MessagesOf(req.sessions, req.currentId)
                    \o UserTurn \o AssistantTurn(r.answer)
       /\ (r.kind = "ok" /\ ReceiveChatOf(r)) =>
             /\ ~loading'
             /\ messages' = req.messages \o UserTurn \o AssistantTurn(r.answer)
    ]_vars

(* the active session ends with the user's turn and the answer *)
C6_Witness ==
  /\ ~loading /\ req = NoReq /\ error = NoError
  /\ Rendered
  /\ Len(CurrentSession.messages) >= 2
  /\ \E a \in Answers :
       CurrentSession.messages[Len(CurrentSession.messages)] =
         AssistantMessage(a)
  /\ CurrentSession.messages[Len(CurrentSession.messages) - 1].role = "user"

(* C7: a 2xx response whose body has no answer field appends no assistant  *)
(* message and sets the error.                                             *)
C7_MissingAnswerIsFailure ==
  [][\A r \in Responses :
       (r.kind = "noAnswer" /\ (ReceiveOf(r) \/ ReceiveChatOf(r))) =>
          /\ sessions' = sessions
          /\ messages' = messages
          /\ error' = ErrorText]_vars

(* C8: after a confirmed delete that leaves a session, the active session  *)
(* is the first remaining one if the deleted one was active, and the one   *)
(* that was active before otherwise.                                       *)
C8_DeleteKeepsActive ==
  [][\A i \in 1..Len(sessions) :
       (DeleteOf(i, TRUE) /\ FilterOut(sessions, sessions[i].id) # <<>>) =>
          currentId' = IF sessions[i].id = currentId
                       THEN FilterOut(sessions, sessions[i].id)[1].id
                       ELSE currentId]_vars

C10_BlankRenameIsNoOp ==
  [][\A i \in 1..Len(sessions), value \in Titles :
       (Trim(value) = <<>> /\ RenameOf(i, value)) =>
          sessions' = sessions]_vars

(* the page shows a session that has a title of the user's to lose *)
C10_Witness ==
  /\ Rendered
  /\ \E i \in 1..Len(sessions) : sessions[i].title = <<"t">>
  /\ \E value \in Titles : value # <<>> /\ Trim(value) = <<>>

(* s is t cut off after some n characters, 1 <= n <= TitleLen *)
IsTruncation(s, t) == \E n \in 1..TitleLen : s = Slice(t, n)

(* the suspended handleSend is the first turn of a brand-new session *)
FirstTurn ==
  /\ req.kind = "App"
  /\ BlankSession(req.sessions[FindIndex(req.sessions, req.currentId)])

(* C11: when the first turn of a brand-new session (default title, no      *)
(* messages) is stored, the session's title is a non-empty truncation of   *)
(* the user message's text, at most TitleLen characters long.              *)
C11_AutoTitleIsTruncation ==
  [][\A r \in Responses :
       (r.kind = "ok" /\ FirstTurn /\ ReceiveOf(r)) =>
          LET title == sessions'[FindIndex(sessions', req.currentId)].title IN
          /\ title # <<>>
          /\ Len(title) <= TitleLen
          /\ IsTruncation(title, Trim(req.input))]_vars

TitleOf(ss, id) == ss[FindIndex(ss, id)].title

(* C12: a send, and the storing of its reply or failure, changes the title *)
(* of no session whose title is not the default one.                       *)
C12_TitleOnlyChangedByRename ==
  [][(\E text \in Texts : SendOf(text)) \/ (\E r \in Responses : ReceiveOf(r))
       => \A i \in 1..Len(sessions) :
            (sessions[i].title # DefaultTitle
               /\ HasId(sessions', sessions[i].id)
               /\ i = FindIndex(sessions, sessions[i].id)) =>
                 TitleOf(sessions', sessions[i].id) = sessions[i].title]_vars

(* the value the page's save effect writes for the state in memory *)
Serialised ==
  IF variant = "App" THEN StringifySessions(sessions)
  ELSE StringifyChat(messages)

(* C13: once the first render's effects are done, the stored value is the  *)
(* serialisation of the list in memory after every step.                   *)
C13_WriteThrough == Ready => storage = Serialised

(* a reply was stored after the user's message: two mutations, both saved  *)
C13_Witness ==
  /\ Ready /\ requests > 0 /\ req = NoReq /\ error = NoError
  /\ storage.kind = "array" /\ Len(storage.val) > 0
  /\ storage = Serialised

(* the stored value is absent, unparsable, not an array, or an empty array *)
BadStored == ~(storage.kind = "array" /\ Len(storage.val) > 0)

(* C14: on a stored value that is absent, unparsable, not an array or an   *)
(* empty array, the load effect raises nothing and leaves a first run: one *)
(* blank session, which is the active one (src/src/App.jsx), or the empty  *)
(* conversation (src/unnamed/part_000).                                    *)
C14_LoadNeverFails ==
  [][/\ (BadStored /\ LoadEffect) =>
          /\ phase' # "crashed"
          /\ Len(sessions') = 1
          /\ BlankSession(sessions'[1])
          /\ currentId' = sessions'[1].id
     /\ (BadStored /\ LoadChat) =>
          /\ phase' # "crashed"
          /\ messages' = <<>>]_vars

(* what the load effect puts in memory for a stored array *)
Loaded(st) == MapSeq(st.val, ParseSession)

C16_NewSessionAtFront ==
  [][newSession =>
       /\ Len(sessions') = Len(sessions) + 1
       /\ BlankSession(sessions'[1])
       /\ sessions'[1].id \in Ids
       /\ currentId' = sessions'[1].id
       /\ Tail(sessions') = sessions]_vars

(* a blank active session stands in front of a session the user renamed *)
C16_Witness ==
  /\ Rendered /\ requests = 0
  /\ Len(sessions) = 2
  /\ BlankSession(sessions[1]) /\ currentId = sessions[1].id
  /\ sessions[2].title = <<"t">> /\ sessions[2].messages = <<>>

(* body is ms, message by message and in order, as {role, content},        *)
(* followed by the user message with the trimmed text                      *)
IsTranscriptOf(body, ms, text) ==
  /\ Len(body) = Len(ms) + 1
  /\ \A i \in 1..Len(ms) :
       body[i] = [role |-> ms[i].role, content |-> ms[i].text]
  /\ body[Len(body)] = [role |-> "user", content |-> Trim(text)]

(* C17: the request body of every accepted send holds all messages the     *)
(* target had at send time, in order, each as {role, content}, and the new *)
(* user message last.                                                      *)
C17_TranscriptIsWholeSession ==
  [][\A text \in Texts :
       /\ (SendOf(text) /\ requests' # requests) =>
             IsTranscriptOf(req'.body, CurrentSession.messages, text)
       /\ (SendChatOf(text) /\ requests' # requests) =>
             IsTranscriptOf(req'.body, messages, text)]_vars

(* C18: a send whose text is empty or whitespace only appends no message,  *)
(* issues no request, and leaves the sessions, the conversation, the       *)
(* active id, loading, error and the stored value as they are.             *)
C18_BlankSendIsNoOp ==
  [][\A text \in Texts :
       (Trim(text) = <<>> /\ (SendOf(text) \/ SendChatOf(text))) =>
          UNCHANGED <<sessions, messages, currentId, loading, error, storage,
                      req, requests>>]_vars

(* an idle page shows the error of a failed send, and the textarea can     *)
(* hold a blank that is not empty                                          *)
C18_Witness ==
  /\ Rendered \/ ChatReady
  /\ ~loading /\ error = ErrorText
  /\ \E text \in Texts : text # <<>> /\ Trim(text) = <<>>

(* C19: a confirmed clear empties the message list of the active session   *)
(* and keeps its id, title and createdAt; the sessions with another id,    *)
(* the length and order of the list and the active id stay as they are.    *)
C19_ClearFrame ==
  [][ClearOf(TRUE) =>
       /\ Len(sessions') = Len(sessions)
       /\ currentId' = currentId
       /\ sessions'[FindIndex(sessions, currentId)].messages = <<>>
       /\ \A i \in 1..Len(sessions) :
            /\ sessions'[i].id = sessions[i].id
            /\ sessions'[i].title = sessions[i].title
            /\ sessions'[i].createdAt = sessions[i].createdAt
            /\ sessions[i].id # currentId => sessions'[i] = sessions[i]]_vars

(* the stored session with a title and a message was cleared: title kept,  *)
(* messages gone, the two other sessions still behind it                   *)
C19_Witness ==
  /\ Rendered /\ requests = 0 /\ Len(sessions) = 3
  /\ currentId = sessions[1].id
  /\ sessions[1].title = <<"t">> /\ sessions[1].messages = <<>>
  /\ sessions[1].createdAt = StoredSession.createdAt

(* C20: storing the reply of a successful send changes only the target     *)
(* session: the list keeps the length and order it has when the reply      *)
(* arrives, every session with another id stays as it is then, and the     *)
(* target keeps what the user did to it in the meantime, apart from its    *)
(* messages and, on a first turn, its title.                               *)
C20_ReconcilePreservesEdits ==
  [][\A r \in Responses :
       (r.kind = "ok" /\ ReceiveOf(r)) =>
          /\ Len(sessions') = Len(sessions)
          /\ \A i \in 1..Len(sessions) :
               /\ sessions'[i].id = sessions[i].id
               /\ sessions[i].id # req.currentId => sessions'[i] = sessions[i]
               /\ (sessions[i].id = req.currentId
                     /\ Len(req.updated.messages) > 1) =>
                    sessions'[i].title = sessions[i].title]_vars

(* the ids of the sessions in a stored value *)
StoredIds(st) ==
  IF st.kind = "array" THEN {st.val[i].id : i \in 1..Len(st.val)} ELSE {}

(* C21: a deleted session does not come back when a response arrives: the  *)
(* step that stores a response puts no session into the list, or into the  *)
(* stored value, whose id is not in the list when the response arrives; in *)
(* particular not the session the send was made on, if it was deleted in   *)
(* the meantime.                                                           *)
C21_DeleteIsPermanent ==
  [][\A r \in Responses :
       ReceiveOf(r) =>
          /\ IdsOf(sessions') \subseteq IdsOf(sessions)
          /\ StoredIds(storage') \subseteq IdsOf(sessions)]_vars

(* a message of old occurs in ms *)
Reappears(old, ms) ==
  \E k \in 1..Len(ms), j \in 1..Len(old) : ms[k] = old[j]

(* C22: when the conversation a send was made on has been cleared while    *)
(* the request was in flight, the step that stores the response puts none  *)
(* of the messages from before the clear back, neither into memory nor     *)
(* into the stored value.                                                  *)
C22_ClearSurvivesReply ==
  [][\A r \in Responses :
       /\ (/\ ReceiveOf(r)
           /\ HasId(sessions, req.currentId)
           /\ MessagesOf(sessions, req.currentId) = <<>>) =>
             /\ ~Reappears(req.updated.messages,
                           MessagesOf(sessions', req.currentId))
             /\ ~Reappears(req.updated.messages,
                           MessagesOf(Loaded(storage'), req.currentId))
       /\ (ReceiveChatOf(r) /\ messages = <<>>) =>
             /\ ~Reappears(req.nextMessages, messages')
             /\ ~Reappears(req.nextMessages, ParseMessages(storage'.val))
    ]_vars

(* the last message of a list is the assistant message with answer a *)
EndsWithAnswer(ms, a) == ms # <<>> /\ ms[Len(ms)] = AssistantMessage(a)

Initialising == phase \in {"mount", "loaded", "kept", "rerender"}

(* C24: while the page initialises on a stored non-empty list, no step     *)
(* changes the stored value: it is the same list after the load effect,    *)
(* after each save effect and after the re-render.                         *)
C24_LoadKeepsHistory ==
  [][(Initialising /\ storage.kind = "array" /\ Len(storage.val) > 0) =>
        storage' = storage]_vars

(* C25: a request is issued only by a send the page accepts, one request   *)
(* per send; the step that stores a response or a failure issues none and  *)
(* leaves no request outstanding, so after a failure nothing is sent until *)
(* the user sends again.                                                   *)
C25_NoAutomaticRetry ==
  [][/\ requests' # requests =>
          /\ requests' = requests + 1
          /\ \E text \in Texts :
               /\ Trim(text) # <<>>
               /\ SendOf(text) \/ SendChatOf(text)
     /\ \A r \in Responses :
          (ReceiveOf(r) \/ ReceiveChatOf(r)) =>
             /\ requests' = requests
             /\ req' = NoReq
             /\ ~loading'
     /\ (req = NoReq /\ req' # NoReq) => requests' = requests + 1]_vars

(* one send was accepted and failed; the page is idle with the error       *)
(* showing and one request on the count                                    *)
C25_Witness ==
  /\ Rendered \/ ChatReady
  /\ requests = 1 /\ req = NoReq /\ ~loading
  /\ error = ErrorText

(* C26: once the page is initialised, no two sessions of the list have the *)
(* same id.                                                                *)
C26_IdsAreDistinct ==
  (variant = "App" /\ Ready) =>
     \A i, j \in 1..Len(sessions) :
        sessions[i].id = sessions[j].id => i = j

====
